---- MODULE Spec2Model ----
(***************************************************************************)
(* A model of the alignment VAE of src/alignments/models/vae.py and of the *)
(* validation helper of src/alignments/alignmentvae_helper.py.             *)
(*                                                                         *)
(* Numbers are exact rationals <<n, d>> with d > 0 in lowest terms; the    *)
(* float not-a-number is <<0, 0>> and the infinities are <<1, 0>> and      *)
(* <<-1, 0>>.  Tensors are functions over 1..B, 1..T_y, 1..T_x.            *)
(***************************************************************************)
EXTENDS Integers, Sequences, FiniteSets, TLC

VARIABLES
    pc,                     \* "new", "table" (inside the table loop), "ready",
                            \* "returned" (a call has just returned)
    attrs,                  \* the attributes set on the AlignmentVAE instance
    dist,                   \* self.dist
    prior_params,           \* self.prior_params
    cv,                     \* use_mean_cv, use_std_cv, use_self_critic_cv
    avg_reward,             \* the running mean baseline buffer
    std_reward,             \* the running std baseline buffer
    hardkuma_prior_table,   \* self.hardkuma_prior_table: length -> <<a, b>>
    tbl,                    \* locals of _create_hardkuma_prior_table
    nupd,                   \* number of update_baselines calls so far
    ret,                    \* the last call: its name, arguments and outcome
    val                     \* locals of validate

vars == <<pc, attrs, dist, prior_params, cv, avg_reward, std_reward,
          hardkuma_prior_table, tbl, nupd, ret, val>>

(***************************************************************************)
(* Bounds of the model.                                                    *)
(***************************************************************************)
MaxLen == 2                 \* padded widths T_x and T_y of a batch
BatchSize == 2              \* batch elements of a call
MaxSentenceLength == 3      \* largest max_sentence_length of a model
GridN == 3                  \* N, the candidates of the prior table sweep
EpsDen == 4                 \* epsilon is 1 / EpsDen
MaxUpdates == 2             \* update_baselines calls in one behaviour
SqrtScale == 10             \* square roots are rounded down to 1 / SqrtScale

(***************************************************************************)
(* Exact rational arithmetic with the float specials.                      *)
(***************************************************************************)
RECURSIVE Gcd(_, _)
Gcd(m, n) == IF n = 0 THEN m ELSE Gcd(n, m % n)

Abs(n) == IF n < 0 THEN -n ELSE n

Sign(n) == IF n < 0 THEN -1 ELSE IF n > 0 THEN 1 ELSE 0

NaN == <<0, 0>>

Inf == <<1, 0>>

Q(n, d) ==
    IF d = 0 THEN <<Sign(n), 0>>
    ELSE LET g == Gcd(Abs(n), Abs(d))
         IN <<Sign(d) * (n \div g), Abs(d) \div g>>

R(n) == <<n, 1>>

IsNaN(x) == x = NaN

IsFinite(x) == x[2] # 0

Neg(x) == <<-x[1], x[2]>>

Add(x, y) ==
    IF IsNaN(x) \/ IsNaN(y) THEN NaN
    ELSE IF ~IsFinite(x) /\ ~IsFinite(y) THEN (IF x = y THEN x ELSE NaN)
    ELSE IF ~IsFinite(x) THEN x
    ELSE IF ~IsFinite(y) THEN y
    ELSE LET l == (x[2] \div Gcd(x[2], y[2])) * y[2]
         IN Q(x[1] * (l \div x[2]) + y[1] * (l \div y[2]), l)

Sub(x, y) == Add(x, Neg(y))

Mul(x, y) ==
    IF IsNaN(x) \/ IsNaN(y) THEN NaN
    ELSE IF ~IsFinite(x) \/ ~IsFinite(y)
         THEN <<Sign(x[1]) * Sign(y[1]), 0>>
    ELSE LET g1 == Gcd(Abs(x[1]), y[2])
             g2 == Gcd(Abs(y[1]), x[2])
         IN Q((x[1] \div g1) * (y[1] \div g2), (x[2] \div g2) * (y[2] \div g1))

Div(x, y) ==
    IF IsNaN(x) \/ IsNaN(y) THEN NaN
    ELSE IF ~IsFinite(y) THEN (IF IsFinite(x) THEN R(0) ELSE NaN)
    ELSE IF y[1] = 0 THEN <<Sign(x[1]), 0>>
    ELSE Mul(x, <<Sign(y[1]) * y[2], Abs(y[1])>>)

\* x < y as floats compare: false whenever a NaN is involved.
Lt(x, y) ==
    IF IsNaN(x) \/ IsNaN(y) THEN FALSE
    ELSE IF ~IsFinite(x) \/ ~IsFinite(y)
         THEN (IF IsFinite(x) THEN y[1] > 0
               ELSE IF IsFinite(y) THEN x[1] < 0 ELSE x[1] < y[1])
    ELSE Sub(x, y)[1] < 0

Le(x, y) == ~IsNaN(x) /\ ~IsNaN(y) /\ ~Lt(y, x)

Gt(x, y) == Lt(y, x)

Min(x, y) == IF IsNaN(x) \/ IsNaN(y) THEN NaN ELSE IF Lt(y, x) THEN y ELSE x

Max(x, y) == IF IsNaN(x) \/ IsNaN(y) THEN NaN ELSE IF Lt(x, y) THEN y ELSE x

\* tensor.clamp(min=lo, max=hi); a bound of NaN stands for "not given".
Clamp(x, lo, hi) ==
    IF IsNaN(x) THEN NaN
    ELSE LET low == IF ~IsNaN(lo) /\ Lt(x, lo) THEN lo ELSE x
         IN IF ~IsNaN(hi) /\ Lt(hi, low) THEN hi ELSE low

RECURSIVE SumSeq(_)
SumSeq(s) == IF s = <<>> THEN R(0) ELSE Add(Head(s), SumSeq(Tail(s)))

\* the largest r >= lo with r * r <= n
RECURSIVE ISqrtFrom(_, _)
ISqrtFrom(n, r) == IF (r + 1) * (r + 1) > n THEN r ELSE ISqrtFrom(n, r + 1)

Sqrt(x) ==
    IF IsNaN(x) \/ (IsFinite(x) /\ x[1] < 0) THEN NaN
    ELSE IF ~IsFinite(x) THEN x
    ELSE Q(ISqrtFrom((x[1] * SqrtScale * SqrtScale) \div x[2], 0), SqrtScale)

(***************************************************************************)
(* Natural numbers of any size, least significant limb first, for the      *)
(* exact comparison of powers.                                             *)
(***************************************************************************)
LimbBase == 10000

RECURSIVE BigMulSmall(_, _, _)
BigMulSmall(n, k, carry) ==
    IF n = <<>> THEN (IF carry = 0 THEN <<>> ELSE <<carry>>)
    ELSE LET t == Head(n) * k + carry
         IN <<t % LimbBase>> \o BigMulSmall(Tail(n), k, t \div LimbBase)

RECURSIVE BigPow(_, _, _)
BigPow(acc, k, e) ==
    IF e = 0 THEN acc ELSE BigMulSmall(BigPow(acc, k, e - 1), k, 0)

RECURSIVE BigGtFrom(_, _, _)
BigGtFrom(m, n, i) ==
    IF i = 0 THEN FALSE
    ELSE IF m[i] # n[i] THEN m[i] > n[i] ELSE BigGtFrom(m, n, i - 1)

BigGt(m, n) ==
    IF Len(m) # Len(n) THEN Len(m) > Len(n) ELSE BigGtFrom(m, n, Len(m))

\* A real power base ^ exp of positive rationals, kept symbolic.
Pow(base, exp) == [base |-> base, exp |-> exp]

\* base ^ (P / Q) > q  iff  bn^P * qd^Q > bd^P * qn^Q, for positive operands.
PowGt(pw, q) ==
    IF ~IsFinite(pw.base) THEN pw.base[1] > 0
    ELSE LET P == pw.exp[1]
             E == pw.exp[2]
         IN BigGt(BigPow(BigPow(<<1>>, pw.base[1], P), q[2], E),
                  BigPow(BigPow(<<1>>, pw.base[2], P), q[1], E))

(***************************************************************************)
(* Family names.  A name is the sequence of its parts, so that Python's    *)
(* substring test ("bernoulli" in self.dist) and its equality test         *)
(* (self.dist == "kuma") stay different operations.                        *)
(***************************************************************************)
BernoulliRF == <<"bernoulli", "-RF">>

BernoulliST == <<"bernoulli", "-ST">>

Concrete == <<"concrete">>

Kuma == <<"kuma">>

HardKuma == <<"hard", "kuma">>

KnownDists == {BernoulliRF, BernoulliST, Concrete, Kuma, HardKuma}

\* names outside the enumerated five, one of them containing "bernoulli"
UnknownDists == {<<"gaussian">>, <<"bernoulli">>}

Dists == KnownDists \cup UnknownDists

\* Python's `sub in s` on strings
HasSubstring(s, sub) ==
    \E k \in 0..(Len(s) - Len(sub)) : SubSeq(s, k + 1, k + Len(sub)) = sub

\* alignments.constants.epsilon, a small positive stabiliser
epsilon == Q(1, EpsDen)

\* outcomes of a call
Return(v) == [kind |-> "return", value |-> v]

Raise(e) == [kind |-> "raise", exc |-> e]

None == [class |-> "NoneType"]

IsDistribution(o) == o.kind = "return" /\ o.value.class # "NoneType"

\* the family variant of a distribution object: its (outermost) class
Variant(d) == d.class

(***************************************************************************)
(* Distribution objects (alignments.dist, probabll.distributions).         *)
(***************************************************************************)
BernoulliREINFORCE(param, t) ==
    [class |-> "BernoulliREINFORCE", param |-> param, t |-> t]

BernoulliStraightThrough(param, t) ==
    [class |-> "BernoulliStraightThrough", param |-> param, t |-> t]

BinaryConcrete(temperature, logits) ==
    [class |-> "BinaryConcrete", temperature |-> temperature, logits |-> logits]

Kumaraswamy(a, b) == [class |-> "Kumaraswamy", a |-> a, b |-> b]

Stretched(base, lower, upper) ==
    [class |-> "Stretched", base |-> base, lower |-> lower, upper |-> upper]

Rectified01(base) == [class |-> "Rectified01", base |-> base]

\* Kumaraswamy(a, b).cdf(x) = 1 - (1 - x^a)^b, which is x^a at b = 1, the
\* only b the table builder uses.
KumaraswamyCdf(a, b, x) == Pow(x, a)

(***************************************************************************)
(* Batches: lengths, and the masks that go with them.                      *)
(***************************************************************************)
Batch == 1..BatchSize

Positions == 1..MaxLen

SeqLens == [Batch -> Positions]

\* create_batch: True at the first `length` positions of each row
MaskOf(seq_len) == [k \in Batch |-> [i \in Positions |-> i <= seq_len[k]]]

Float(flag) == IF flag THEN R(1) ELSE R(0)

(***************************************************************************)
(* The prior table builder, AlignmentVAE._create_hardkuma_prior_table.     *)
(***************************************************************************)
StretchL == Q(-1, 10)

StretchR == Q(11, 10)

\* torch.linspace(start, end, steps)
linspace(start, end, steps) ==
    [i \in 1..steps |->
        IF steps = 1 THEN start
        ELSE Add(start, Mul(Q(i - 1, steps - 1), Sub(end, start)))]

\* sorted(kuma_priors, key=lambda elem: elem[0]), a stable insertion sort
RECURSIVE InsertByA(_, _)
InsertByA(sorted, e) ==
    IF sorted = <<>> THEN <<e>>
    ELSE IF Lt(e[1], Head(sorted)[1]) THEN <<e>> \o sorted
    ELSE <<Head(sorted)>> \o InsertByA(Tail(sorted), e)

RECURSIVE SortedByA(_)
SortedByA(s) ==
    IF s = <<>> THEN <<>>
    ELSE InsertByA(SortedByA(SubSeq(s, 1, Len(s) - 1)), s[Len(s)])

\* the list of (a, 1.0, CDF(0)) over the sweep of a, sorted by a
KumaPriors(l, r, N) ==
    LET b == R(1)
        k0 == Div(Neg(l), Sub(r, l))
        sweep == linspace(epsilon, R(1), N)
    IN SortedByA([i \in 1..N |-> <<sweep[i], b, KumaraswamyCdf(sweep[i], b, k0)>>])

\* the keys of range(max_sentence_length): one too low at both ends
TableLengthsFromZero(max_sentence_length) == 0..(max_sentence_length - 1)

\* the keys the table gets: range(1, max_sentence_length + 1)
TableLengths(max_sentence_length) == 1..max_sentence_length

\* the target without the complement: the mass left for the links
P0Complement(length) ==
    Min(Div(Add(R(1), epsilon), Add(R(length), R(1))), Sub(R(1), epsilon))

\* the target probability of zero for a sentence length
P0(length) ==
    Sub(R(1), Min(Div(Add(R(1), epsilon), Add(R(length), R(1))),
                  Sub(R(1), epsilon)))

\* the while loop of one length: loc holds the locals a, b, cdf0 and idx
RECURSIVE ScanWhile(_, _, _)
ScanWhile(kuma_priors, p0, loc) ==
    IF PowGt(loc.cdf0, p0) /\ loc.idx # Len(kuma_priors)
    THEN LET e == kuma_priors[loc.idx + 1]
         IN ScanWhile(kuma_priors, p0,
                      [a |-> e[1], b |-> e[2], cdf0 |-> e[3], idx |-> loc.idx + 1])
    ELSE loc

\* one iteration that goes on from the idx and cdf0 of the iteration before
TableIterationNoReset(t, length) ==
    LET p0 == P0(length)
        loc == ScanWhile(t.kuma_priors, p0,
                         [a |-> t.a, b |-> t.b, cdf0 |-> t.cdf0, idx |-> t.idx])
    IN [t EXCEPT !.length = length, !.p0 = p0, !.a = loc.a, !.b = loc.b,
                 !.cdf0 = loc.cdf0, !.idx = loc.idx]

\* one iteration of the loop over the lengths: the locals after it
TableIteration(t, length) ==
    LET p0 == P0(length)
        loc == ScanWhile(t.kuma_priors, p0,
                         [a |-> t.a, b |-> t.b, cdf0 |-> Pow(Inf, R(1)), idx |-> 0])
    IN [t EXCEPT !.length = length, !.p0 = p0, !.a = loc.a, !.b = loc.b,
                 !.cdf0 = loc.cdf0, !.idx = loc.idx]

\* the locals of the builder when its loop over the lengths starts
TableLocals(prior_param_1, max_sentence_length, l, r, N) ==
    [kuma_priors |-> KumaPriors(l, r, N),
     max_sentence_length |-> max_sentence_length,
     length |-> 0, p0 |-> NaN,
     a |-> linspace(epsilon, R(1), N)[N], b |-> R(1),
     cdf0 |-> Pow(Inf, R(1)), idx |-> 0]

NoTableLocals ==
    [kuma_priors |-> <<>>, max_sentence_length |-> 0, length |-> 0, p0 |-> NaN,
     a |-> NaN, b |-> NaN, cdf0 |-> Pow(Inf, R(1)), idx |-> 0]

(***************************************************************************)
(* AlignmentVAE.__init__                                                   *)
(***************************************************************************)
Param1Vals == {R(-1), R(0), R(1), R(2)}

Param2Vals == {R(-1), R(0), Q(1, 2), R(1)}

NoCv == [use_mean_cv |-> FALSE, use_std_cv |-> FALSE, use_self_critic_cv |-> FALSE]

CvToggles ==
    [use_mean_cv : BOOLEAN, use_std_cv : BOOLEAN, use_self_critic_cv : BOOLEAN]

alpha == Q(5, 100)

BaselineAttrs ==
    {"avg_reward", "std_reward", "alpha", "use_mean_cv", "use_std_cv",
     "use_self_critic_cv"}

Init ==
    /\ pc = "new"
    /\ attrs = {}
    /\ dist = <<>>
    /\ prior_params = <<NaN, NaN>>
    /\ cv = NoCv
    /\ avg_reward = NaN
    /\ std_reward = NaN
    /\ hardkuma_prior_table = <<>>
    /\ tbl = NoTableLocals
    /\ nupd = 0
    /\ ret = [op |-> "none", args |-> <<>>, out |-> [kind |-> "return", value |-> [class |-> "NoneType"]]]
    /\ val = <<>>

\* __init__ up to the loop over the lengths of the table builder
Construct(d, params, max_sentence_length, toggles) ==
    /\ pc = "new"
    /\ dist' = d
    /\ prior_params' = params
    /\ IF d = BernoulliRF
       THEN /\ avg_reward' = R(0)
            /\ std_reward' = R(1)
            /\ cv' = toggles
       ELSE UNCHANGED <<avg_reward, std_reward, cv>>
    /\ IF d = HardKuma
       THEN /\ tbl' = TableLocals(params[1], max_sentence_length,
                                  StretchL, StretchR, GridN)
            /\ pc' = IF TableLengths(max_sentence_length) # {}
                     THEN "table" ELSE "ready"
       ELSE /\ tbl' = tbl
            /\ pc' = "ready"
    /\ attrs' = {"dist", "prior_params"}
                  \cup (IF d = BernoulliRF THEN BaselineAttrs ELSE {})
                  \cup (IF d = HardKuma THEN {"hardkuma_prior_table"} ELSE {})
    /\ UNCHANGED <<hardkuma_prior_table, nupd, ret, val>>

\* the lengths the loop of the table builder has still to visit
Remaining(t, table) ==
    {n \in TableLengths(t.max_sentence_length) : n \notin DOMAIN table}

SetMin(S) == CHOOSE n \in S : \A m \in S : n <= m

\* one pass of `for length in range(1, max_sentence_length+1)`
TableStep ==
    /\ pc = "table"
    /\ LET length == SetMin(Remaining(tbl, hardkuma_prior_table))
           t == TableIteration(tbl, length)
       IN /\ tbl' = t
          /\ hardkuma_prior_table' =
                [n \in DOMAIN hardkuma_prior_table \cup {length} |->
                    IF n = length THEN <<t.a, t.b>> ELSE hardkuma_prior_table[n]]
          /\ pc' = IF Remaining(tbl, hardkuma_prior_table) = {length}
                   THEN "ready" ELSE "table"
    /\ UNCHANGED <<attrs, dist, prior_params, cv, avg_reward, std_reward, nupd,
                   ret, val>>

(***************************************************************************)
(* AlignmentVAE.prior                                                      *)
(***************************************************************************)
\* tensor.new_full(shape, fill_value) for the shape [B, T_y, T_x]
NewFull(fill_value) ==
    [k \in Batch |-> [j \in Positions |-> [i \in Positions |-> fill_value]]]

\* the length-scaled Bernoulli probabilities, repeated over the target axis
LengthScaledProbs(prior_param_1, seq_mask_x, seq_len_x) ==
    [k \in Batch |-> [j \in Positions |-> [i \in Positions |->
        Clamp(Div(Mul(prior_param_1, Add(Float(seq_mask_x[k][i]), epsilon)),
                  Add(R(seq_len_x[k]), R(1))),
              NaN, Q(99, 100))]]]

\* the branch of the Bernoulli families
BernoulliPrior(seq_mask_x, seq_len_x) ==
    LET prior_param_1 == prior_params[1]
        prior_param_2 == prior_params[2]
    IN IF Gt(prior_param_1, R(0))
       THEN Return(BernoulliREINFORCE("probs",
                LengthScaledProbs(prior_param_1, seq_mask_x, seq_len_x)))
       ELSE IF Gt(prior_param_2, R(0))
       THEN Return(BernoulliREINFORCE("probs", NewFull(prior_param_2)))
       ELSE Raise("Exception")

\* the rows of the table for the source lengths of the batch, over the grid
TableA(seq_len_x) ==
    [k \in Batch |-> [j \in Positions |-> [i \in Positions |->
        hardkuma_prior_table[seq_len_x[k]][1]]]]

\* the Kumaraswamy branch without the table lookup
KumaPriorFixedOnly(seq_len_x) ==
    LET prior_param_1 == prior_params[1]
        prior_param_2 == prior_params[2]
        wrap(p) == IF dist = Kuma THEN Return(p)
                   ELSE Return(Rectified01(Stretched(p, Q(-1, 10), Q(11, 10))))
    IN IF Gt(prior_param_1, R(0)) /\ Gt(prior_param_2, R(0))
       THEN wrap(Kumaraswamy(NewFull(prior_param_1), NewFull(prior_param_2)))
       ELSE Raise("Exception")

\* the branch of the Kumaraswamy families
KumaPrior(seq_len_x) ==
    LET prior_param_1 == prior_params[1]
        prior_param_2 == prior_params[2]
        wrap(p) == IF dist = Kuma THEN Return(p)
                   ELSE Return(Rectified01(Stretched(p, Q(-1, 10), Q(11, 10))))
    IN IF Gt(prior_param_1, R(0)) /\ Gt(prior_param_2, R(0))
       THEN wrap(Kumaraswamy(NewFull(prior_param_1), NewFull(prior_param_2)))
       ELSE IF dist = HardKuma /\ Gt(prior_param_1, R(0))
       THEN IF \E k \in Batch : seq_len_x[k] \notin DOMAIN hardkuma_prior_table
            THEN Raise("KeyError")
            ELSE wrap(Kumaraswamy(TableA(seq_len_x), NewFull(R(1))))
       ELSE Raise("Exception")

prior(seq_mask_x, seq_len_x, seq_mask_y) ==
    IF HasSubstring(dist, <<"bernoulli">>)
    THEN BernoulliPrior(seq_mask_x, seq_len_x)
    ELSE IF dist = Concrete
    THEN Raise("NotImplementedError")
    ELSE IF dist \in {Kuma, HardKuma}
    THEN KumaPrior(seq_len_x)
    ELSE Return(None)

(***************************************************************************)
(* InferenceNetwork.forward, reached through approximate_posterior.  The   *)
(* scores bmm(queries, keys^T) of the network are an input of the model.   *)
(***************************************************************************)
InferenceNetworkForward(logits) ==
    IF dist \in {BernoulliRF, BernoulliST, Concrete}
    THEN IF dist = BernoulliRF THEN Return(BernoulliREINFORCE("logits", logits))
         ELSE IF dist = BernoulliST
         THEN Return(BernoulliStraightThrough("logits", logits))
         ELSE Return(BinaryConcrete(R(1),
                 [k \in Batch |-> [j \in Positions |-> [i \in Positions |->
                     Clamp(logits[k][j][i], R(-5), R(5))]]]))
    ELSE IF dist \in {Kuma, HardKuma}
    THEN Raise("NotImplementedError")
    ELSE Raise("Exception")

approximate_posterior(logits) == InferenceNetworkForward(logits)

LogitVals == {R(-6), R(0), R(6)}

\* score tensors of the lifecycle specification: one value in every cell
FlatLogits == {NewFull(v) : v \in LogitVals}

\* length vectors of a padded batch: at most one element is shorter than
\* the padded width
BatchLens ==
    {s \in SeqLens : Cardinality({k \in Batch : s[k] < MaxLen}) <= 1}

FullLens == [k \in Batch |-> MaxLen]

\* a length vector with the batch elements in the opposite order
Reversed(seq_len) == [k \in Batch |-> seq_len[BatchSize + 1 - k]]

\* the sentence lengths a model is given: within its table when it has one
DataLens ==
    IF "hardkuma_prior_table" \in attrs
    THEN {s \in BatchLens : \A k \in Batch : s[k] \in DOMAIN hardkuma_prior_table}
    ELSE BatchLens

PriorCall ==
    /\ pc = "ready"
    /\ \E seq_len_x \in DataLens :
          ret' = [op |-> "prior",
                  args |-> [seq_len_x |-> seq_len_x],
                  out |-> prior(MaskOf(seq_len_x), seq_len_x, MaskOf(FullLens))]
    /\ pc' = "returned"
    /\ UNCHANGED <<attrs, dist, prior_params, cv, avg_reward, std_reward,
                   hardkuma_prior_table, tbl, nupd, val>>

ApproximatePosteriorCall ==
    /\ pc = "ready"
    /\ \E logits \in FlatLogits :
          ret' = [op |-> "approximate_posterior",
                  args |-> [logits |-> logits],
                  out |-> approximate_posterior(logits)]
    /\ pc' = "returned"
    /\ UNCHANGED <<attrs, dist, prior_params, cv, avg_reward, std_reward,
                   hardkuma_prior_table, tbl, nupd, val>>

(***************************************************************************)
(* The objective, AlignmentVAE.loss.  What the networks and the            *)
(* distribution objects compute from their arguments is an input `t`:      *)
(*   t.ce          -log softmax(logits)[y] per target position             *)
(*   t.kl          kl_divergence(qa, pa) per cell                          *)
(*   t.log_prob_A  qa.log_prob(A) per cell                                 *)
(*   t.critic_ce   the cross entropy of forward(x, qa.mean.round())        *)
(***************************************************************************)
pad_idx == "<pad>"

\* tensor.sum over an axis of n entries
RECURSIVE SumTo(_, _)
SumTo(f, n) == IF n = 0 THEN R(0) ELSE Add(SumTo(f, n - 1), f[n])

\* tensor.mean() of a vector of n entries
MeanTo(f, n) == Div(SumTo(f, n), R(n))

\* F.cross_entropy(logits, y, ignore_index=pad_idx, reduction="none")
CrossEntropy(ce, y) ==
    [k \in Batch |-> [j \in Positions |->
        IF y[k][j] = pad_idx THEN R(0) ELSE ce[k][j]]]

\* masking by multiplication with the float masks: a NaN stays a NaN
MaskedKLByProduct(KL, seq_mask_x, seq_mask_y) ==
    LET masked == [k \in Batch |-> [j \in Positions |-> [i \in Positions |->
                      Mul(Mul(KL[k][j][i], Float(seq_mask_x[k][i])),
                          Float(seq_mask_y[k][j]))]]]
    IN [k \in Batch |->
           SumTo([j \in Positions |-> SumTo(masked[k][j], MaxLen)], MaxLen)]

\* the two torch.where calls that mask the KL, then the sum over both axes
MaskedKL(KL, seq_mask_x, seq_mask_y) ==
    LET masked_x == [k \in Batch |-> [j \in Positions |-> [i \in Positions |->
                        IF seq_mask_x[k][i] THEN KL[k][j][i] ELSE R(0)]]]
        masked == [k \in Batch |-> [j \in Positions |-> [i \in Positions |->
                        IF seq_mask_y[k][j] THEN masked_x[k][j][i] ELSE R(0)]]]
    IN [k \in Batch |->
           SumTo([j \in Positions |-> SumTo(masked[k][j], MaxLen)], MaxLen)]

\* cv_self_critic: minus the cross entropy under the rounded posterior mean
cv_self_critic(critic_ce, y) ==
    LET ce == CrossEntropy(critic_ce, y)
    IN [k \in Batch |-> [j \in Positions |-> Neg(ce[k][j])]]

\* the control variates applied to a reward of shape [B, T_y]
NormalizedReward(reward, self_critic_score) ==
    LET r1 == IF cv.use_self_critic_cv
              THEN [k \in Batch |-> [j \in Positions |->
                       Sub(reward[k][j], self_critic_score[k][j])]]
              ELSE reward
        r2 == IF cv.use_mean_cv
              THEN [k \in Batch |-> [j \in Positions |-> Sub(r1[k][j], avg_reward)]]
              ELSE r1
        r3 == IF cv.use_std_cv
              THEN [k \in Batch |-> [j \in Positions |->
                       Div(r2[k][j], Clamp(std_reward, R(1), NaN))]]
              ELSE r2
    IN [reward_sc |-> r1, normalized_reward |-> r3]

\* the REINFORCE surrogate of one batch element
Surrogate(normalized_reward, log_prob_A, k) ==
    LET log_qa_sample == [j \in Positions |-> SumTo(log_prob_A[k][j], MaxLen)]
    IN SumTo([j \in Positions |-> Mul(normalized_reward[k][j], log_qa_sample[j])],
             MaxLen)

\* the negated loss without the correction for the KL multiplier
ElboScaled(loss0, KL_multiplier, KL) == [k \in Batch |-> Neg(loss0[k])]

\* output_dict["ELBO"], from the loss before the surrogate is added
Elbo(loss0, KL_multiplier, KL) ==
    [k \in Batch |->
        Sub(Add(Neg(loss0[k]), Mul(KL_multiplier, KL[k])), KL[k])]

Reductions == {"mean", "sum", "none"}

loss(t) ==
    LET neg_log_py_xa == CrossEntropy(t.ce, t.y)
        log_py_xa == [k \in Batch |-> [j \in Positions |-> Neg(neg_log_py_xa[k][j])]]
        KL == MaskedKL(t.kl, t.seq_mask_x, t.seq_mask_y)
        loss0 == [k \in Batch |->
                    Add(SumTo(neg_log_py_xa[k], MaxLen), Mul(t.KL_multiplier, KL[k]))]
        ELBO == Elbo(loss0, t.KL_multiplier, KL)
        reward == log_py_xa
        nr == NormalizedReward(reward, cv_self_critic(t.critic_ce, t.y))
        loss1 == IF dist = BernoulliRF
                 THEN [k \in Batch |->
                          Sub(loss0[k], Surrogate(nr.normalized_reward, t.log_prob_A, k))]
                 ELSE loss0
        dict0 == [log_py_xa |-> log_py_xa, KL |-> KL, ELBO |-> ELBO]
        dict1 == IF dist = BernoulliRF
                 THEN (IF cv.use_self_critic_cv
                       THEN [reward_sc |-> nr.reward_sc] ELSE <<>>)
                      @@ [reward |-> reward, normalized_reward |-> nr.normalized_reward]
                 ELSE <<>>
    IN IF t.reduction = "mean"
       THEN Return(dict0 @@ dict1 @@ [loss |-> MeanTo(loss1, BatchSize)])
       ELSE IF t.reduction = "sum"
       THEN Return(dict0 @@ dict1 @@ [loss |-> SumTo(loss1, BatchSize)])
       ELSE IF t.reduction = "none"
       THEN Return(dict0 @@ dict1 @@ [loss |-> loss1])
       ELSE Raise("Exception")

(***************************************************************************)
(* AlignmentVAE.ppo_loss.  t.ratio is exp(log_qa_new - log_qa_init) per    *)
(* target position, t.logits the scores of the fresh posterior.            *)
(***************************************************************************)
ppo_locals(t) ==
    LET ratio_c == [k \in Batch |-> [j \in Positions |->
                       Clamp(t.ratio[k][j], Sub(R(1), t.eps), Add(R(1), t.eps))]]
        detached == [k \in Batch |-> [j \in Positions |-> t.log_py_xa[k][j]]]
        nr == NormalizedReward(detached, cv_self_critic(t.critic_ce, t.y))
        reward == IF t.reward_given THEN t.reward ELSE nr.normalized_reward
        KL == MaskedKL(t.kl, t.seq_mask_x, t.seq_mask_y)
        worst == [k \in Batch |-> [j \in Positions |->
                     Max(Mul(Neg(reward[k][j]), t.ratio[k][j]),
                         Mul(Neg(reward[k][j]), ratio_c[k][j]))]]
        mean == Div(SumTo([k \in Batch |-> SumTo(worst[k], MaxLen)], BatchSize),
                    R(BatchSize * MaxLen))
    IN [KL |-> KL, reward |-> reward, reward_sc |-> nr.reward_sc,
        ppo_loss |-> [k \in Batch |-> Add(mean, Mul(KL[k], t.KL_multiplier))]]

ppo_loss(t) ==
    LET qa_new == approximate_posterior(t.logits)
        l == ppo_locals(t)
    IN IF qa_new.kind = "raise" THEN qa_new
       ELSE IF ~t.reward_given /\ "use_self_critic_cv" \notin attrs
       THEN Raise("AttributeError")
       ELSE Return((IF ~t.reward_given /\ cv.use_self_critic_cv
                    THEN [reward_sc |-> l.reward_sc] ELSE <<>>)
                   @@ [loss |-> l.ppo_loss, reward |-> l.reward])

(***************************************************************************)
(* AlignmentVAE.update_baselines                                           *)
(***************************************************************************)
\* tensor.std() of a vector of n entries (unbiased; NaN for one entry)
StdTo(f, n) ==
    LET m == MeanTo(f, n)
        sq == [k \in 1..n |-> Mul(Sub(f[k], m), Sub(f[k], m))]
    IN Sqrt(Div(SumTo(sq, n), R(n - 1)))

\* the reward normalised by the padded width instead of the true length
LengthNormalizedByWidth(new_reward, seq_len_y) ==
    [k \in Batch |-> Div(SumTo(new_reward[k], MaxLen), R(MaxLen))]

\* the per-element length-normalised reward
LengthNormalized(new_reward, seq_len_y) ==
    [k \in Batch |-> Div(SumTo(new_reward[k], MaxLen), R(seq_len_y[k]))]

\* the exponential smoothing of one baseline
Smoothed(old, new) == Add(Mul(alpha, new), Mul(Sub(R(1), alpha), old))

\* the baselines <<avg_reward, std_reward>> after one call
update_baselines(new_reward, seq_len_y) ==
    LET nr == LengthNormalized(new_reward, seq_len_y)
    IN <<Smoothed(avg_reward, MeanTo(nr, BatchSize)),
         Smoothed(std_reward, StdTo(nr, BatchSize))>>

UpdateBaselines(new_reward, seq_len_y) ==
    /\ pc = "ready"
    /\ nupd < MaxUpdates
    /\ nupd' = nupd + 1
    /\ IF {"alpha", "avg_reward", "std_reward"} \subseteq attrs
       THEN /\ avg_reward' = update_baselines(new_reward, seq_len_y)[1]
            /\ std_reward' = update_baselines(new_reward, seq_len_y)[2]
            /\ ret' = [op |-> "update_baselines",
                       args |-> [new_reward |-> new_reward, seq_len_y |-> seq_len_y],
                       out |-> Return(None)]
       ELSE /\ UNCHANGED <<avg_reward, std_reward>>
            /\ ret' = [op |-> "update_baselines",
                       args |-> [new_reward |-> new_reward, seq_len_y |-> seq_len_y],
                       out |-> Raise("AttributeError")]
    /\ pc' = "returned"
    /\ UNCHANGED <<attrs, dist, prior_params, cv, hardkuma_prior_table, tbl, val>>

(***************************************************************************)
(* Inputs of the objective.  Every valid cell carries its own power of two *)
(* so that a sum tells which cells went into it; `fill` is what the        *)
(* padding cells hold.                                                     *)
(***************************************************************************)
RECURSIVE Pow2(_)
Pow2(n) == IF n = 0 THEN 1 ELSE 2 * Pow2(n - 1)

Weight(j, i) == Pow2((j - 1) * MaxLen + (i - 1))

Target(seq_len_y) ==
    [k \in Batch |-> [j \in Positions |-> IF j <= seq_len_y[k] THEN "w" ELSE pad_idx]]

CellTensor(seq_len_x, seq_len_y, scale, fill) ==
    [k \in Batch |-> [j \in Positions |-> [i \in Positions |->
        IF j <= seq_len_y[k] /\ i <= seq_len_x[k]
        THEN R(scale * k * Weight(j, i)) ELSE fill]]]

RowTensor(scale) == [k \in Batch |-> [j \in Positions |-> R(scale * (k + j))]]

KLMultipliers == {R(0), R(1), R(3)}

\* what the padding cells of the KL and of the log-probability hold
Fills == {<<R(5), R(-3)>>, <<NaN, R(-5)>>}

LossArgs(seq_len_x, seq_len_y, kl_fill, lp_fill, KL_multiplier, reduction) ==
    [ce |-> RowTensor(1), y |-> Target(seq_len_y),
     log_prob_A |-> CellTensor(seq_len_x, seq_len_y, -1, lp_fill),
     seq_mask_x |-> MaskOf(seq_len_x), seq_mask_y |-> MaskOf(seq_len_y),
     kl |-> CellTensor(seq_len_x, seq_len_y, 1, kl_fill),
     critic_ce |-> RowTensor(2),
     KL_multiplier |-> KL_multiplier, reduction |-> reduction]

\* a loss whose clamp of std_reward works in place (clamp_), so that the
\* buffer itself is raised to 1
LossClampInPlace(t) ==
    /\ pc = "ready"
    /\ ret' = [op |-> "loss", args |-> t, out |-> loss(t)]
    /\ pc' = "returned"
    /\ std_reward' = IF dist = BernoulliRF /\ cv.use_std_cv
                     THEN Clamp(std_reward, R(1), NaN) ELSE std_reward
    /\ UNCHANGED <<attrs, dist, prior_params, cv, avg_reward,
                   hardkuma_prior_table, tbl, nupd, val>>

Loss(t) ==
    /\ pc = "ready"
    /\ ret' = [op |-> "loss", args |-> t, out |-> loss(t)]
    /\ pc' = "returned"
    /\ UNCHANGED <<attrs, dist, prior_params, cv, avg_reward, std_reward,
                   hardkuma_prior_table, tbl, nupd, val>>

\* source and target lengths of a batch: the short element of the source
\* side is the short one of the target side too, or its mirror image
LenPairs ==
    {<<s, s>> : s \in DataLens} \cup {<<s, Reversed(s)>> : s \in DataLens}

LossCall ==
    \E lens \in LenPairs, fill \in Fills, KL_multiplier \in KLMultipliers,
       reduction \in Reductions \cup {"max"} :
          Loss(LossArgs(lens[1], lens[2], fill[1], fill[2],
                        KL_multiplier, reduction))

PpoArgs(seq_len_x, seq_len_y, kl_fill, ratio, reward_given, KL_multiplier) ==
    [logits |-> NewFull(R(0)), y |-> Target(seq_len_y),
     seq_mask_x |-> MaskOf(seq_len_x), seq_mask_y |-> MaskOf(seq_len_y),
     kl |-> CellTensor(seq_len_x, seq_len_y, 1, kl_fill),
     ratio |-> [k \in Batch |-> [j \in Positions |-> ratio]],
     log_py_xa |-> [k \in Batch |-> [j \in Positions |->
                       Neg(CrossEntropy(RowTensor(1), Target(seq_len_y))[k][j])]],
     critic_ce |-> RowTensor(2),
     eps |-> Q(1, 5), KL_multiplier |-> KL_multiplier,
     reward_given |-> reward_given, reward |-> RowTensor(-1)]

PpoLoss(t) ==
    /\ pc = "ready"
    /\ ret' = [op |-> "ppo_loss", args |-> t, out |-> ppo_loss(t),
               KL |-> ppo_locals(t).KL]
    /\ pc' = "returned"
    /\ UNCHANGED <<attrs, dist, prior_params, cv, avg_reward, std_reward,
                   hardkuma_prior_table, tbl, nupd, val>>

PpoLossCall ==
    \E lens \in LenPairs, fill \in Fills,
       ratio \in {Q(1, 2), R(2)}, reward_given \in BOOLEAN,
       KL_multiplier \in KLMultipliers :
          PpoLoss(PpoArgs(lens[1], lens[2], fill[1], ratio, reward_given,
                          KL_multiplier))

\* realised rewards: a log-likelihood at the valid positions, 0 at padding
RewardBatch(seq_len_y, scale) ==
    [k \in Batch |-> [j \in Positions |->
        IF j <= seq_len_y[k] THEN R(-(scale * (k + j))) ELSE R(0)]]

RewardScales == {1, 3}

UpdateBaselinesCall ==
    \E seq_len_y \in BatchLens, scale \in RewardScales :
        UpdateBaselines(RewardBatch(seq_len_y, scale), seq_len_y)

(***************************************************************************)
(* train_step of the helper: posterior, prior, a sample, the objective.    *)
(***************************************************************************)
NotCalled == [kind |-> "not called"]

\* model.loss(logits=..., y=..., A=..., ...) as the helper calls it: the
\* parameter x of loss has no default and is not passed
LossWithoutX == Raise("TypeError")

train_step(seq_len_x, seq_len_y, logits) ==
    LET qa == approximate_posterior(logits)
        pa == IF qa.kind = "raise" THEN NotCalled
              ELSE prior(MaskOf(seq_len_x), seq_len_x, MaskOf(seq_len_y))
    IN [qa |-> qa, pa |-> pa,
        out |-> IF qa.kind = "raise" THEN qa
                ELSE IF pa.kind = "raise" THEN pa
                ELSE LossWithoutX]

TrainStepCall ==
    /\ pc = "ready"
    /\ \E seq_len_x \in DataLens, logits \in FlatLogits :
          LET r == train_step(seq_len_x, FullLens, logits)
          IN ret' = [op |-> "train_step",
                     args |-> [seq_len_x |-> seq_len_x, logits |-> logits],
                     qa |-> r.qa, pa |-> r.pa, out |-> r.out]
    /\ pc' = "returned"
    /\ UNCHANGED <<attrs, dist, prior_params, cv, avg_reward, std_reward,
                   hardkuma_prior_table, tbl, nupd, val>>

\* one call of each remaining operation, on a full-length batch
LossOnce ==
    /\ FullLens \in DataLens
    /\ \E reduction \in Reductions \cup {"max"} :
          Loss(LossArgs(FullLens, FullLens, R(5), R(-3), R(1), reduction))

PpoLossOnce ==
    /\ FullLens \in DataLens
    /\ \E reward_given \in BOOLEAN :
          PpoLoss(PpoArgs(FullLens, FullLens, R(5), R(2), reward_given, R(1)))

UpdateBaselinesOnce == UpdateBaselines(RewardBatch(FullLens, 1), FullLens)

\* the first update of the baselines of a model
UpdateBaselinesFirst == nupd = 0 /\ UpdateBaselinesOnce

NoCall == [op |-> "none", args |-> <<>>, out |-> Return(None)]

\* the caller takes the outcome of the call and goes on
ReturnToCaller ==
    /\ pc = "returned"
    /\ pc' = "ready"
    /\ ret' = NoCall
    /\ val' = <<>>
    /\ UNCHANGED <<attrs, dist, prior_params, cv, avg_reward, std_reward,
                   hardkuma_prior_table, tbl, nupd>>

ConstructCall ==
    \E d \in Dists, p1 \in Param1Vals, p2 \in Param2Vals,
       m \in 0..MaxSentenceLength :
          \E toggles \in (IF d = BernoulliRF THEN CvToggles ELSE {NoCv}) :
             Construct(d, <<p1, p2>>, m, toggles)

Next ==
    \/ ConstructCall
    \/ TableStep
    \/ PriorCall
    \/ ApproximatePosteriorCall
    \/ TrainStepCall
    \/ LossOnce
    \/ PpoLossOnce
    \/ UpdateBaselinesOnce
    \/ ReturnToCaller

Spec == Init /\ [][Next]_vars

(***************************************************************************)
(* The objective on a constructed model of each enumerated family.         *)
(***************************************************************************)
ConstructObjective ==
    \E d \in KnownDists :
       \E toggles \in (IF d = BernoulliRF THEN CvToggles ELSE {NoCv}) :
          Construct(d, <<R(1), Q(1, 2)>>, MaxSentenceLength, toggles)

NextObjective ==
    \/ ConstructObjective
    \/ TableStep
    \/ UpdateBaselinesFirst
    \/ LossCall
    \/ PpoLossCall
    \/ ReturnToCaller

SpecObjective == Init /\ [][NextObjective]_vars

(***************************************************************************)
(* The baselines of a Bernoulli-REINFORCE model.                           *)
(***************************************************************************)
ConstructBaselines ==
    \E use_mean_cv \in BOOLEAN :
       Construct(BernoulliRF, <<R(1), R(0)>>, 0,
                 [NoCv EXCEPT !.use_mean_cv = use_mean_cv])

NextBaselines ==
    \/ ConstructBaselines
    \/ UpdateBaselinesCall
    \/ ReturnToCaller

SpecBaselines == Init /\ [][NextBaselines]_vars

(***************************************************************************)
(* validate of the helper.  The loader yields val.n_batches batches; the   *)
(* scores of the inference network for a batch are an input.               *)
(***************************************************************************)
MaxBatches == 2

\* qa.mean.round() of one cell of a Bernoulli posterior given by its logit:
\* sigmoid(logit) rounded to the nearest integer, a half going to 0
RoundedMean(logit) ==
    IF IsNaN(logit) THEN NaN ELSE IF Gt(logit, R(0)) THEN R(1) ELSE R(0)

\* A = qa.mean.round()
Decide(qa) ==
    [k \in Batch |-> [j \in Positions |-> [i \in Positions |->
        RoundedMean(qa.t[k][j][i])]]]

\* the loops over A_k[:len_y_k] and aj[:len_x_k], both enumerated from 1
Links(len_x_k, len_y_k, A_k) ==
    LET rows == SubSeq(A_k, 1, len_y_k)
    IN UNION {LET aj == SubSeq(rows[j], 1, len_x_k)
              IN {<<i, j>> : i \in {i \in 1..Len(aj) : Gt(aj[i], R(0))}} :
              j \in 1..Len(rows)}

\* score tensors of a validation batch: positive above the diagonal (on it
\* too from the second element on), or positive in every cell; the padding
\* cells hold scores like any other cell
ValPatterns == {"skew", "all"}

ValLogits(pattern) ==
    [k \in Batch |-> [j \in Positions |-> [i \in Positions |->
        IF pattern = "skew" THEN R(i - j + Sign(k - 1)) ELSE R(1)]]]

\* gold_alignments: a (sure, probable) pair per sentence
GoldAlignments(n) == [m \in 1..n |-> <<{<<1, 1>>}, {<<1, 1>>, <<m, 1>>}>>]

\* the body of `for sen_x, sen_y in val_dl` up to the first exception
validate_batch(seq_len_x, seq_len_y, logits) ==
    LET qa == approximate_posterior(logits)
        A == Decide(qa.value)
        links == [k \in Batch |-> Links(seq_len_x[k], seq_len_y[k], A[k])]
        pa == prior(MaskOf(seq_len_x), seq_len_x, MaskOf(seq_len_y))
    IN IF qa.kind = "raise" THEN [out |-> qa, A |-> <<>>, links |-> <<>>]
       ELSE IF ~HasSubstring(dist, <<"bernoulli">>)
       \* the hardkuma branch needs a posterior, which forward never returns
       THEN [out |-> Raise("NotImplementedError"), A |-> <<>>, links |-> <<>>]
       ELSE IF pa.kind = "raise" THEN [out |-> pa, A |-> A, links |-> links]
       ELSE [out |-> LossWithoutX, A |-> A, links |-> links]

ValidateStart ==
    /\ pc = "ready"
    /\ \E n \in 0..MaxBatches :
          val' = [n_batches |-> n, data |-> <<>>, alignments |-> <<>>,
                  num_sentences |-> 0,
                  gold_alignments |-> GoldAlignments(n * BatchSize),
                  submitted |-> <<>>]
    /\ pc' = "validate"
    /\ UNCHANGED <<attrs, dist, prior_params, cv, avg_reward, std_reward,
                   hardkuma_prior_table, tbl, nupd, ret>>

ValidateBatch ==
    /\ pc = "validate"
    /\ val.num_sentences < val.n_batches * BatchSize
    /\ \E seq_len_x \in BatchLens, pattern \in ValPatterns :
          LET seq_len_y == Reversed(seq_len_x)
              logits == ValLogits(pattern)
              r == validate_batch(seq_len_x, seq_len_y, logits)
              sentences == [k \in Batch |->
                               [len_x |-> seq_len_x[k], len_y |-> seq_len_y[k],
                                logits |-> logits[k]]]
          IN /\ val' = [val EXCEPT
                          !.data = @ \o sentences,
                          !.alignments = @ \o r.links,
                          !.num_sentences =
                             IF r.out.kind = "raise" THEN @ ELSE @ + BatchSize]
             /\ IF r.out.kind = "raise"
                THEN /\ pc' = "returned"
                     /\ ret' = [op |-> "validate", args |-> <<>>, out |-> r.out]
                ELSE UNCHANGED <<pc, ret>>
    /\ UNCHANGED <<attrs, dist, prior_params, cv, avg_reward, std_reward,
                   hardkuma_prior_table, tbl, nupd>>

\* zip(alignments, gold_alignments) into metric.update
Submitted(alignments, gold_alignments) ==
    [n \in 1..(IF Len(alignments) < Len(gold_alignments)
               THEN Len(alignments) ELSE Len(gold_alignments)) |->
        [sure |-> gold_alignments[n][1], probable |-> gold_alignments[n][2],
         predicted |-> alignments[n]]]

\* what follows the loop over the batches
ValidateFinish ==
    /\ pc = "validate"
    /\ val.num_sentences = val.n_batches * BatchSize
    /\ IF val.num_sentences = 0
       THEN /\ ret' = [op |-> "validate", args |-> <<>>,
                       out |-> Raise("ZeroDivisionError")]
            /\ val' = val
       ELSE /\ val' = [val EXCEPT
                          !.submitted = Submitted(val.alignments, val.gold_alignments)]
            /\ ret' = [op |-> "validate", args |-> <<>>,
                       out |-> Return([class |-> "float"])]
    /\ pc' = "returned"
    /\ UNCHANGED <<attrs, dist, prior_params, cv, avg_reward, std_reward,
                   hardkuma_prior_table, tbl, nupd>>

ConstructValidate ==
    \E d \in Dists, p1 \in Param1Vals, p2 \in Param2Vals :
       Construct(d, <<p1, p2>>, MaxSentenceLength, NoCv)

NextValidate ==
    \/ ConstructValidate
    \/ TableStep
    \/ ValidateStart
    \/ ValidateBatch
    \/ ValidateFinish
    \/ ReturnToCaller

SpecValidate == Init /\ [][NextValidate]_vars

(***************************************************************************)
(* The prior table builder called on its own, with the stretch of its      *)
(* defaults or with a wider one, l = -0.9, that puts the position of 0     *)
(* above the smallest targets.                                             *)
(***************************************************************************)
StretchLWide == Q(-9, 10)

\* model._create_hardkuma_prior_table(prior_param_1, max_sentence_length, l, r)
\* up to its loop over the lengths
CreateHardkumaPriorTable(max_sentence_length, l, r) ==
    /\ pc = "ready"
    /\ dist = HardKuma
    /\ tbl' = TableLocals(prior_params[1], max_sentence_length, l, r, GridN)
    /\ hardkuma_prior_table' = <<>>
    /\ pc' = IF TableLengths(max_sentence_length) # {} THEN "table" ELSE "ready"
    /\ UNCHANGED <<attrs, dist, prior_params, cv, avg_reward, std_reward, nupd,
                   ret, val>>

CreateHardkumaPriorTableCall ==
    \E m \in 1..MaxSentenceLength, l \in {StretchL, StretchLWide} :
       CreateHardkumaPriorTable(m, l, StretchR)

ConstructTable ==
    \E p1 \in Param1Vals, p2 \in Param2Vals, m \in 0..MaxSentenceLength :
       Construct(HardKuma, <<p1, p2>>, m, NoCv)

NextTable ==
    \/ ConstructTable
    \/ TableStep
    \/ CreateHardkumaPriorTableCall
    \/ PriorCall
    \/ ReturnToCaller

SpecTable == Init /\ [][NextTable]_vars

(***************************************************************************)
(* Claims about the objective.                                             *)
(***************************************************************************)
Returned(op) == pc = "returned" /\ ret.op = op /\ ret.out.kind = "return"

\* the cells of batch element k inside the valid source x target mask
ValidCells(t, k) ==
    {c \in Positions \X Positions : t.seq_mask_y[k][c[1]] /\ t.seq_mask_x[k][c[2]]}

RECURSIVE SumCells(_, _)
SumCells(f, cells) ==
    IF cells = {} THEN R(0)
    ELSE LET c == CHOOSE c \in cells : TRUE
         IN Add(f[c[1]][c[2]], SumCells(f, cells \ {c}))

ValidKL(t) == [k \in Batch |-> SumCells(t.kl[k], ValidCells(t, k))]

HasPaddingNaN(t) ==
    \E k \in Batch, j \in Positions, i \in Positions :
        ~(t.seq_mask_y[k][j] /\ t.seq_mask_x[k][i]) /\ IsNaN(t.kl[k][j][i])

\* C2: in loss and in ppo_loss the KL of a batch element is the sum of the
\* per-cell KL over exactly the cells whose target and source positions are
\* both unmasked; whatever a cell outside the mask holds, it adds nothing.
C2_MaskedKL ==
    /\ Returned("loss") => ret.out.value.KL = ValidKL(ret.args)
    /\ Returned("ppo_loss") =>
          /\ ret.KL = ValidKL(ret.args)
          /\ \A k \in Batch, m \in Batch :
                Sub(ret.out.value.loss[k], ret.out.value.loss[m])
                  = Mul(ret.args.KL_multiplier,
                        Sub(ValidKL(ret.args)[k], ValidKL(ret.args)[m]))

C2_Witness ==
    /\ Returned("ppo_loss")
    /\ HasPaddingNaN(ret.args)
    /\ \E k \in Batch : ValidKL(ret.args)[k] # ValidKL(ret.args)[1]

\* C8: the ELBO of every batch element is the summed reconstruction
\* log-likelihood minus the masked, summed KL, whatever the KL multiplier,
\* the family, the sampled alignment's log-probability and the reduction.
C8_ElboUnscaled ==
    Returned("loss") =>
       /\ \A k \in Batch :
             ret.out.value.ELBO[k]
               = Sub(SumTo(ret.out.value.log_py_xa[k], MaxLen), ValidKL(ret.args)[k])
       /\ \A reduction \in Reductions, f \in Fills :
             loss([ret.args EXCEPT
                      !.reduction = reduction,
                      !.log_prob_A = [k \in Batch |-> [j \in Positions |->
                                         [i \in Positions |-> f[2]]]]]).value.ELBO
               = ret.out.value.ELBO

C8_Witness ==
    /\ Returned("loss")
    /\ dist = BernoulliRF
    /\ ret.args.KL_multiplier = R(3)
    /\ ret.args.reduction = "mean"
    /\ \A k \in Batch : Lt(ret.out.value.ELBO[k], R(0)) /\ Gt(ret.out.value.KL[k], R(0))

\* the arguments of a loss call changed at padding cells only: another
\* log-probability of the sample at the cells outside the mask, and another
\* cross entropy of the logits at the padded target positions
PaddingVariants(t) ==
    {[t EXCEPT
        !.log_prob_A =
           [k \in Batch |-> [j \in Positions |-> [i \in Positions |->
               IF t.seq_mask_y[k][j] /\ t.seq_mask_x[k][i]
               THEN t.log_prob_A[k][j][i] ELSE v[1]]]],
        !.ce =
           [k \in Batch |-> [j \in Positions |->
               IF t.seq_mask_y[k][j] THEN t.ce[k][j] ELSE v[2]]]] :
     v \in {R(-3), R(-7)} \X {R(1), R(4)}}

\* C1: with the Bernoulli-REINFORCE family, two loss calls whose inputs
\* differ only at padding cells return the same loss.
C1_PaddingFreeLoss ==
    (Returned("loss") /\ dist = BernoulliRF) =>
        \A t \in PaddingVariants(ret.args) : loss(t).value.loss = ret.out.value.loss

(***************************************************************************)
(* Claims about the families, the prior and the prior table.               *)
(***************************************************************************)
\* C3: whenever the posterior and the prior of a training step are both
\* distributions, they are of the same family variant.
C3_SameVariant ==
    (pc = "returned" /\ ret.op = "train_step"
        /\ IsDistribution(ret.qa) /\ IsDistribution(ret.pa)) =>
        Variant(ret.qa.value) = Variant(ret.pa.value)

\* C4: for a family name outside the enumerated five, posterior
\* construction and prior construction both raise and return nothing.
C4_UnknownDistRaises ==
    (pc = "returned" /\ dist \notin KnownDists
        /\ ret.op \in {"prior", "approximate_posterior"}) =>
        ret.out.kind = "raise"

\* the configurations in which the prior exists
PriorExists ==
    LET p1 == Gt(prior_params[1], R(0))
        p2 == Gt(prior_params[2], R(0))
    IN \/ dist \in {BernoulliRF, BernoulliST} /\ (p1 \/ p2)
       \/ dist \in {Kuma, HardKuma} /\ p1 /\ p2
       \/ dist = HardKuma /\ p1 /\ ~p2

\* the innermost distribution of a (possibly wrapped) distribution object
Innermost(d) ==
    IF d.class = "Rectified01" THEN d.base.base ELSE d

\* C10: for the five enumerated families the prior is a distribution in
\* exactly these configurations and raises in every other: Bernoulli with
\* prior_param_1 > 0 (length-scaled, first) or else prior_param_2 > 0 (fixed
\* probability); kuma and hardkuma with both parameters > 0 (fixed shape);
\* hardkuma with prior_param_1 > 0 >= prior_param_2 (from the table).
C10_PriorConfigurations ==
    (pc = "returned" /\ ret.op = "prior" /\ dist \in KnownDists) =>
        LET p1 == Gt(prior_params[1], R(0))
            p2 == Gt(prior_params[2], R(0))
            d == Innermost(ret.out.value)
            len == ret.args.seq_len_x
        IN /\ PriorExists <=> IsDistribution(ret.out)
           /\ ~PriorExists => ret.out.kind = "raise"
           /\ (PriorExists /\ dist \in {BernoulliRF, BernoulliST} /\ p1) =>
                 \A k \in Batch : d.t[k][1][1] =
                     Min(Div(Mul(prior_params[1], Add(R(1), epsilon)), R(len[k] + 1)),
                         Q(99, 100))
           /\ (PriorExists /\ dist \in {BernoulliRF, BernoulliST} /\ ~p1) =>
                 \A k \in Batch, j \in Positions, i \in Positions :
                     d.t[k][j][i] = prior_params[2]
           /\ (PriorExists /\ dist \in {Kuma, HardKuma} /\ p2) =>
                 \A k \in Batch, j \in Positions, i \in Positions :
                     d.a[k][j][i] = prior_params[1] /\ d.b[k][j][i] = prior_params[2]
           /\ (PriorExists /\ dist = HardKuma /\ ~p2) =>
                 \A k \in Batch, j \in Positions, i \in Positions :
                     /\ d.a[k][j][i] = hardkuma_prior_table[len[k]][1]
                     /\ d.b[k][j][i] = R(1)

C10_Witness ==
    /\ pc = "returned" /\ ret.op = "prior" /\ dist = HardKuma
    /\ Gt(prior_params[1], R(0)) /\ ~Gt(prior_params[2], R(0))
    /\ IsDistribution(ret.out)
    /\ \E k \in Batch : ret.args.seq_len_x[k] < MaxLen

\* C5 as stated: the target zero-probability does not grow with the length.
C5_P0Decreasing ==
    (pc \in {"table", "ready", "returned"} /\ tbl.length >= 1) =>
        \A L1 \in 1..tbl.length : L1 < tbl.length => Le(tbl.p0, P0(L1))

\* C5, amended: the target zero-probability computed by the table builder
\* does not shrink with the length: p0(L1) <= p0(L2) whenever L1 < L2.
C5_P0Increasing ==
    (pc \in {"table", "ready", "returned"} /\ tbl.length >= 1) =>
        /\ tbl.p0 = P0(tbl.length)
        /\ \A L1 \in 1..tbl.length : L1 < tbl.length => Le(P0(L1), tbl.p0)
        /\ Le(Q(1, 4), tbl.p0) /\ Lt(tbl.p0, R(1))

C5_Witness ==
    /\ pc = "table"
    /\ tbl.length = 2
    /\ Lt(P0(1), tbl.p0)

\* after construction a step leaves the table as it was
TableFrozen ==
    pc \in {"ready", "returned"} => hardkuma_prior_table' = hardkuma_prior_table

\* C6: once the table builder has finished, the table has an entry for each
\* length in 1..max_sentence_length and for no other key, every entry has
\* b = 1, and no later operation changes the table.
C6_TableCompleteAndFrozen ==
    /\ [](("hardkuma_prior_table" \in attrs /\ pc \in {"ready", "returned"}) =>
            /\ DOMAIN hardkuma_prior_table = 1..tbl.max_sentence_length
            /\ \A n \in DOMAIN hardkuma_prior_table :
                  hardkuma_prior_table[n][2] = R(1))
    /\ [][TableFrozen]_vars

C6_Witness ==
    /\ pc = "returned"
    /\ ret.op \in {"prior", "loss"}
    /\ dist = HardKuma
    /\ DOMAIN hardkuma_prior_table = 1..MaxSentenceLength

(***************************************************************************)
(* Claims about the baselines.                                             *)
(***************************************************************************)
\* the batch mean of the per-element sum over the target positions divided
\* by the element's target length
BatchMeanReward(new_reward, seq_len_y) ==
    Div(SumCells([k \in Batch |-> [j \in Positions |->
                     Div(new_reward[k][j], R(seq_len_y[k]))]],
                 Batch \X Positions),
        R(BatchSize))

\* a step that is a call of update_baselines on a model that has baselines
BaselineStep ==
    /\ nupd' = nupd + 1
    /\ "avg_reward" \in attrs

\* what C7 says of such a step
SmoothedTowardsMean ==
    BaselineStep =>
        LET m == BatchMeanReward(ret'.args.new_reward, ret'.args.seq_len_y)
        IN /\ avg_reward' = Add(Mul(Q(5, 100), m), Mul(Q(95, 100), avg_reward))
           /\ Sub(avg_reward', m) = Mul(Q(95, 100), Sub(avg_reward, m))
           /\ Le(avg_reward, m) => (Le(avg_reward, avg_reward') /\ Le(avg_reward', m))
           /\ Le(m, avg_reward) => (Le(m, avg_reward') /\ Le(avg_reward', avg_reward))

\* C7: the baselines start at (0, 1); every update_baselines call sets
\* avg_reward to 0.05 * m + 0.95 * avg_reward with m the batch mean of the
\* length-normalised reward, so avg_reward moves towards m without passing
\* it and its distance to m shrinks by the factor 0.95.
C7_BaselineSmoothing ==
    /\ []((pc = "ready" /\ nupd = 0 /\ "avg_reward" \in attrs) =>
             (avg_reward = R(0) /\ std_reward = R(1)))
    /\ [][SmoothedTowardsMean]_vars

C7_Witness ==
    /\ pc = "returned"
    /\ ret.op = "update_baselines"
    /\ nupd = MaxUpdates
    /\ \E k \in Batch : ret.args.seq_len_y[k] < MaxLen
    /\ Lt(avg_reward, R(0))

(***************************************************************************)
(* Claims about validate.                                                  *)
(***************************************************************************)
\* the links of a sentence as C9 describes them
ExpectedLinks(sentence) ==
    {c \in Positions \X Positions :
        /\ c[1] <= sentence.len_x
        /\ c[2] <= sentence.len_y
        /\ Gt(RoundedMean(sentence.logits[c[2]][c[1]]), R(0))}

\* C9: a validate call on a Bernoulli model whose prior exists, over at
\* least one batch, submits to the metric one link set per sentence, in
\* input order, holding exactly the pairs (i, j) within the true lengths
\* whose decided alignment is > 0.
C9_LinksSubmitted ==
    (pc = "returned" /\ ret.op = "validate" /\ val.n_batches > 0
        /\ dist \in {BernoulliRF, BernoulliST} /\ PriorExists) =>
        /\ ret.out.kind = "return"
        /\ Len(val.submitted) = Len(val.data)
        /\ \A n \in 1..Len(val.data) :
              val.submitted[n].predicted = ExpectedLinks(val.data[n])

(***************************************************************************)
(* Claims about the scan of the prior table builder.                       *)
(***************************************************************************)
\* the candidates whose CDF at zero is at most the target of a length
Satisfying(kuma_priors, length) ==
    {i \in 1..Len(kuma_priors) : ~PowGt(kuma_priors[i][3], P0(length))}

\* the entry C11 describes for a length
ExpectedEntry(kuma_priors, length) ==
    LET S == Satisfying(kuma_priors, length)
        last == kuma_priors[Len(kuma_priors)]
        best == kuma_priors[CHOOSE i \in S :
                               \A j \in S : Le(kuma_priors[i][1], kuma_priors[j][1])]
    IN IF S = {} THEN <<last[1], last[2]>> ELSE <<best[1], best[2]>>

\* C11: the entry of every length is the candidate with the smallest a
\* whose CDF at zero is at most p0 of the length, or the last candidate
\* (the largest a) when there is none; and the scan of a length finds the
\* same entry whatever length was scanned before it.
C11_TableScan ==
    (dist = HardKuma /\ pc \in {"table", "ready", "returned"}) =>
        \A n \in DOMAIN hardkuma_prior_table :
           /\ hardkuma_prior_table[n] = ExpectedEntry(tbl.kuma_priors, n)
           /\ \A last \in 1..MaxSentenceLength :
                 LET t == TableIteration(TableIteration(tbl, last), n)
                 IN <<t.a, t.b>> = hardkuma_prior_table[n]

C11_Witness ==
    /\ dist = HardKuma
    /\ pc = "ready"
    /\ \E n \in DOMAIN hardkuma_prior_table :
          Satisfying(tbl.kuma_priors, n) = {}
    /\ \E n \in DOMAIN hardkuma_prior_table :
          /\ Satisfying(tbl.kuma_priors, n) # {}
          /\ 1 \notin Satisfying(tbl.kuma_priors, n)
          /\ hardkuma_prior_table[n][1] # tbl.kuma_priors[Len(tbl.kuma_priors)][1]

(***************************************************************************)
(* Claims about the frame of the baselines.                                *)
(***************************************************************************)
\* a step of a constructed model that is no call of update_baselines
OtherStep == pc # "new" /\ nupd' = nupd

\* what C12 says of a step
BaselinesFrame ==
    /\ OtherStep => (avg_reward' = avg_reward /\ std_reward' = std_reward)
    /\ BaselineStep =>
          <<avg_reward', std_reward'>>
             = update_baselines(ret'.args.new_reward, ret'.args.seq_len_y)

\* C12: prior, approximate_posterior, loss, ppo_loss and train_step, with
\* any control variates enabled, leave avg_reward and std_reward as they
\* are; a call of update_baselines assigns each of them once, the smoothed
\* value.
C12_BaselinesFrame == [][BaselinesFrame]_vars

C12_Witness ==
    /\ pc = "returned"
    /\ ret.op = "loss"
    /\ ret.out.kind = "return"
    /\ dist = BernoulliRF
    /\ cv.use_mean_cv /\ cv.use_std_cv /\ cv.use_self_critic_cv
    /\ nupd >= 1
    /\ Lt(avg_reward, R(0))
    /\ Lt(std_reward, R(1))

====
